---- MODULE Spec2Model ----
(***************************************************************************)
(* Join-strategy selection of the physical plan generator                  *)
(* (src/execution/physical_plan/plan_comparison_join.cpp) and the          *)
(* lifetime of the index catalog entry                                     *)
(* (src/catalog/catalog_entry/duck_index_entry.cpp).                       *)
(***************************************************************************)
EXTENDS Integers, Sequences, FiniteSets, TLC

\* ------------------------------------------------------------------ bounds

\* Largest number of join conditions of a LogicalComparisonJoin.
MaxConds == 2

\* ------------------------------------------------------------ input domains

JoinTypes == {"INNER", "LEFT"}

\* ExpressionType values a JoinCondition carries.
Comparisons == {"COMPARE_EQUAL", "COMPARE_NOTEQUAL", "COMPARE_LESSTHAN",
                "COMPARE_GREATERTHAN", "COMPARE_LESSTHANOREQUALTO",
                "COMPARE_GREATERTHANOREQUALTO"}

RangeComparisons == Comparisons \ {"COMPARE_EQUAL", "COMPARE_NOTEQUAL"}

\* The alias of the left / right expression of the i-th condition.
LeftAlias(i) == <<"x1", "x2", "x3", "x4">>[i]
RightAlias(i) == <<"y1", "y2", "y3", "y4">>[i]

\* JoinCondition: left, right, comparison, null_values_are_equal.
CondAt(i) == [left : {LeftAlias(i)}, right : {RightAlias(i)},
              comparison : Comparisons, null_values_are_equal : BOOLEAN]

RECURSIVE CondLists(_)
CondLists(n) ==
    IF n = 0 THEN {<<>>}
    ELSE CondLists(n - 1) \cup
         {Append(cs, c) : cs \in {s \in CondLists(n - 1) : Len(s) = n - 1}, c \in CondAt(n)}

Tables == {"A", "B"}

\* A leaf of the logical tree.
Get == [kind |-> "GET"]

NoIndex == "none"
NoTable == "none"

\* Cardinality estimates: 0, 1 and 100 give the cases below, at and above the
\* one percent ratio.
Cards == {0, 1, 100}

\* A lowered child is named by the path of its logical node from the root:
\* <<1>> is the left child of the root, <<2>> the right child.
LeftPath == <<1>>
RightPath == <<2>>

\* A lowered child: its operator type, the table of its TableScanBindData
\* (NoTable when bind_data is no TableScanBindData), its table_filters
\* pointer and filter count, and its column_ids.
ScanOf(id, t, hasf, nf) ==
    [id |-> id, type |-> "TABLE_SCAN", table |-> t, has_table_filters |-> hasf,
     num_filters |-> nf, column_ids |-> IF id[Len(id)] = 1 THEN <<0, 1>> ELSE <<2>>]

OtherOf(id) ==
    [id |-> id, type |-> "FILTER", table |-> NoTable, has_table_filters |-> FALSE,
     num_filters |-> 0, column_ids |-> <<>>]

Children(id) ==
    {OtherOf(id), ScanOf(id, NoTable, FALSE, 0)} \cup
    {ScanOf(id, t, f[1], f[2]) : t \in Tables,
                                  f \in {<<FALSE, 0>>, <<TRUE, 0>>, <<TRUE, 1>>}}

\* One join node being lowered: the node and its value before the call,
\* its lowered children, the two estimates, the planner's context, and the
\* operator returned.
VARIABLES op, op0, left, right, lhs_cardinality, rhs_cardinality,
          force_index_join, ndebug, storage, indexes, plan, pc

\* A lowering pass over a tree of join nodes: the logical tree and its value
\* before the pass, the stack of active CreatePlan calls, the root's
\* operator, and the calls made so far.
VARIABLES tree, tree0, stack, result, log

joinVars == <<op, op0, left, right, lhs_cardinality, rhs_cardinality, plan, pc>>
contextVars == <<force_index_join, ndebug, storage, indexes>>
walkVars == <<tree, tree0, stack, result, log>>

\* The index catalog entries: each DuckIndexEntry and the
\* IndexDataTableInfo it holds, the number of times an index was taken off
\* its table's list, and the indexes CommitDrop was called for.
VARIABLES entries, infos, removed, dropped

entryVars == <<entries, infos, removed, dropped>>

vars == <<joinVars, contextVars, walkVars, entryVars>>

\* --------------------------------------------------------------- the catalog

\* tbl->table->storage->info->indexes of each table: an ordered list of
\* indexes, each with the alias of unbound_expressions[0].
Catalog ==
    [t \in Tables |->
        IF t = "A"
        THEN <<[name |-> "a_q", alias |-> "q"], [name |-> "a_x", alias |-> "x1"],
               [name |-> "a_x2", alias |-> "x1"]>>
        ELSE <<[name |-> "b_y", alias |-> "y1"]>>]

\* ------------------------------------------------- plan_comparison_join.cpp

\* can_plan_index_join without the test for transaction-local storage.
can_plan_index_join_nolocal(transaction_storage, scan) ==
    IF scan.table = NoTable THEN FALSE
    ELSE IF scan.has_table_filters /\ scan.num_filters > 0 THEN FALSE
    ELSE TRUE

\* can_plan_index_join: a TableScanBindData, no transaction-local storage of
\* its table, no table filters.
can_plan_index_join(transaction_storage, scan) ==
    IF scan.table = NoTable THEN FALSE
    ELSE IF scan.table \in transaction_storage THEN FALSE
    ELSE IF scan.has_table_filters /\ scan.num_filters > 0 THEN FALSE
    ELSE TRUE

\* The loop over the table's indexes: the first one whose expression alias is
\* the alias of the condition's operand, NoIndex when there is none.
RECURSIVE FindIndex(_, _)
FindIndex(ixs, alias) ==
    IF ixs = <<>> THEN NoIndex
    ELSE IF Head(ixs).alias = alias THEN Head(ixs).name
    ELSE FindIndex(Tail(ixs), alias)

\* What TransformIndexJoin leaves in *left_index for the left child.
LeftIndex(o, l, transaction_storage, ixs) ==
    IF o.join_type = "INNER" /\ Len(o.conditions) = 1
       /\ l.type = "TABLE_SCAN" /\ can_plan_index_join(transaction_storage, l)
    THEN FindIndex(ixs[l.table], o.conditions[1].left)
    ELSE NoIndex

\* What TransformIndexJoin leaves in *right_index for the right child.
RightIndex(o, r, transaction_storage, ixs) ==
    IF o.join_type = "INNER" /\ Len(o.conditions) = 1
       /\ r.type = "TABLE_SCAN" /\ can_plan_index_join(transaction_storage, r)
    THEN FindIndex(ixs[r.table], o.conditions[1].right)
    ELSE NoIndex

\* TransformIndexJoin: the pair of indexes found.
TransformIndexJoin(o, l, r, transaction_storage, ixs) ==
    <<LeftIndex(o, l, transaction_storage, ixs), RightIndex(o, r, transaction_storage, ixs)>>

\* The ratio test with <= in place of <.
AtMostOnePercent(a, b) == 100 * a <= b

\* a < 0.01 * b on idx_t operands converted to double.  The product is
\* rounded to the nearest double; for estimates below 2^45 the rounded
\* product is above the integer a exactly when b > 100 * a.
BelowOnePercent(a, b) == 100 * a < b

has_equality(conds) ==
    \E i \in 1..Len(conds) : conds[i].comparison = "COMPARE_EQUAL"

\* has_inequality that also counts COMPARE_LESSTHAN.
has_inequality_wide(conds) ==
    \E i \in 1..Len(conds) :
        conds[i].comparison \in {"COMPARE_NOTEQUAL", "COMPARE_LESSTHAN"}

has_inequality(conds) ==
    \E i \in 1..Len(conds) : conds[i].comparison = "COMPARE_NOTEQUAL"

has_null_equal_conditions(conds) ==
    \E i \in 1..Len(conds) : conds[i].null_values_are_equal

\* The assert of the condition loop fails: a null-equal condition that is no
\* equality.
LoopAssertFails(conds) ==
    \E i \in 1..Len(conds) :
        conds[i].null_values_are_equal /\ conds[i].comparison # "COMPARE_EQUAL"

\* The assert of the branch without equality fails.
BranchAssertFails(conds) ==
    ~has_equality(conds) /\ has_null_equal_conditions(conds)

\* An assert aborts the process unless the build defines NDEBUG.
Aborts(nd, conds) ==
    ~nd /\ conds # <<>> /\ (LoopAssertFails(conds) \/ BranchAssertFails(conds))

\* swap(op.conditions[0].left, op.conditions[0].right)
SwapFirst(conds) ==
    [conds EXCEPT ![1] = [@ EXCEPT !.left = conds[1].right, !.right = conds[1].left]]

NoPlan ==
    [type |-> "NONE", children |-> <<>>, conditions |-> <<>>, join_type |-> "NONE",
     left_projection_map |-> <<>>, right_projection_map |-> <<>>,
     column_ids |-> <<>>, index |-> NoIndex, lhs_first |-> FALSE]

\* The physical operator a constructor call builds from its arguments.
MakeOperator(type, first, second, cond, join_type, lmap, rmap, column_ids, index, lhs_first) ==
    [type |-> type, children |-> <<first, second>>, conditions |-> cond,
     join_type |-> join_type, left_projection_map |-> lmap,
     right_projection_map |-> rmap, column_ids |-> column_ids, index |-> index,
     lhs_first |-> lhs_first]

\* The left-probing index join with the projection maps not exchanged.
LeftIndexJoin_mapsKept(o, l, r, index) ==
    MakeOperator("INDEX_JOIN", r, l, SwapFirst(o.conditions), o.join_type,
                 o.left_projection_map, o.right_projection_map, l.column_ids, index, FALSE)

\* The index join that probes the left child's index: the condition's
\* operands swapped, the right child first, the projection maps exchanged.
LeftIndexJoin(o, l, r, index) ==
    MakeOperator("INDEX_JOIN", r, l, SwapFirst(o.conditions), o.join_type,
                 o.right_projection_map, o.left_projection_map, l.column_ids, index, FALSE)

\* The index join that probes the right child's index.
RightIndexJoin(o, l, r, index) ==
    MakeOperator("INDEX_JOIN", l, r, o.conditions, o.join_type,
                 o.left_projection_map, o.right_projection_map, r.column_ids, index, TRUE)

\* The hash join handed the equality conditions only.
HashJoin_equalOnly(o, l, r) ==
    MakeOperator("HASH_JOIN", l, r,
                 SelectSeq(o.conditions, LAMBDA c : c.comparison = "COMPARE_EQUAL"),
                 o.join_type, o.left_projection_map, o.right_projection_map,
                 <<>>, NoIndex, FALSE)

\* equality join: use hash join
HashJoin(o, l, r) ==
    MakeOperator("HASH_JOIN", l, r, o.conditions, o.join_type,
                 o.left_projection_map, o.right_projection_map, <<>>, NoIndex, FALSE)

\* The branch without an equality condition: a piecewise merge join for one
\* range condition, a nested loop join otherwise.
RangeJoin(o, l, r) ==
    IF Len(o.conditions) = 1 /\ ~has_inequality(o.conditions)
    THEN MakeOperator("PIECEWISE_MERGE_JOIN", l, r, o.conditions, o.join_type,
                      <<>>, <<>>, <<>>, NoIndex, FALSE)
    ELSE MakeOperator("NESTED_LOOP_JOIN", l, r, o.conditions, o.join_type,
                      <<>>, <<>>, <<>>, NoIndex, FALSE)

\* The branch with an equality condition: the left index first, then the
\* right index, then the hash join.
EqualityJoin(o, l, r, lcard, rcard, force, ix) ==
    IF ix[1] # NoIndex /\ (force \/ BelowOnePercent(rcard, lcard))
    THEN LeftIndexJoin(o, l, r, ix[1])
    ELSE IF ix[2] # NoIndex /\ (force \/ BelowOnePercent(lcard, rcard))
    THEN RightIndexJoin(o, l, r, ix[2])
    ELSE HashJoin(o, l, r)

\* The operator CreatePlan returns for a join whose asserts pass.
Select(o, l, r, lcard, rcard, force, transaction_storage, ixs) ==
    IF Len(o.conditions) = 0
    THEN MakeOperator("CROSS_PRODUCT", l, r, <<>>, "NONE", <<>>, <<>>, <<>>, NoIndex, FALSE)
    ELSE IF has_equality(o.conditions)
    THEN EqualityJoin(o, l, r, lcard, rcard, force,
                      TransformIndexJoin(o, l, r, transaction_storage, ixs))
    ELSE RangeJoin(o, l, r)

\* op.conditions if the constructors copied the list instead.
ConditionsCopied(o) == o.conditions

\* op.conditions once CreatePlan has returned: every constructor but the
\* cross product's takes move(op.conditions), which leaves the vector empty.
ConditionsAfter(o) ==
    IF Len(o.conditions) = 0 THEN o.conditions ELSE <<>>

\* ------------------------------------------------- lowering one join node

\* The children and estimates that vary with a join of more than one
\* condition: a bare scan with a matching index or another operator.
PlainChildren(id) ==
    {OtherOf(id), ScanOf(id, IF id = LeftPath THEN "A" ELSE "B", FALSE, 0)}

\* The state at the call of CreatePlan on a join node with these inputs.
InitJoin(jt, conds, l, r, lc, rc, f, nd, st) ==
    /\ op = [join_type |-> jt, conditions |-> conds,
             left_projection_map |-> <<0, 2>>, right_projection_map |-> <<1>>]
    /\ op0 = op
    /\ left = l
    /\ right = r
    /\ lhs_cardinality = lc
    /\ rhs_cardinality = rc
    /\ force_index_join = f
    /\ ndebug = nd
    /\ storage = st
    /\ indexes = Catalog
    /\ plan = NoPlan
    /\ pc = "start"
    /\ tree = Get /\ tree0 = Get /\ stack = <<>> /\ result = NoPlan /\ log = <<>>
    /\ entries = <<>> /\ infos = <<>> /\ removed = <<>> /\ dropped = {}

\* Joins of at most one condition, the only ones TransformIndexJoin looks
\* at, with every kind of child, local storage and estimate.
InitOneCondition ==
    \E jt \in JoinTypes, conds \in {cs \in CondLists(MaxConds) : Len(cs) <= 1},
       l \in Children(LeftPath), r \in Children(RightPath), lc \in Cards, rc \in Cards,
       f \in BOOLEAN, nd \in BOOLEAN, st \in SUBSET Tables :
        InitJoin(jt, conds, l, r, lc, rc, f, nd, st)

\* Joins of more conditions, with plain children.
InitMoreConditions ==
    \E jt \in JoinTypes, conds \in {cs \in CondLists(MaxConds) : Len(cs) > 1},
       l \in PlainChildren(LeftPath), r \in PlainChildren(RightPath),
       lc \in Cards \ {1}, f \in BOOLEAN, nd \in BOOLEAN :
        InitJoin(jt, conds, l, r, lc, 0, f, nd, {})

Init == InitOneCondition \/ InitMoreConditions

\* PhysicalPlanGenerator::CreatePlan(LogicalComparisonJoin &op), its two
\* children lowered.
CreatePlan ==
    /\ pc = "start"
    /\ IF Aborts(ndebug, op.conditions)
       THEN /\ pc' = "aborted"
            /\ UNCHANGED <<op, plan>>
       ELSE /\ plan' = Select(op, left, right, lhs_cardinality, rhs_cardinality,
                              force_index_join, storage, indexes)
            /\ op' = [op EXCEPT !.conditions = ConditionsAfter(op)]
            /\ pc' = "done"
    /\ UNCHANGED <<op0, left, right, lhs_cardinality, rhs_cardinality>>
    /\ UNCHANGED <<contextVars, walkVars, entryVars>>

Next == CreatePlan

Spec == Init /\ [][Next]_vars

\* ------------------------------------------- lowering a tree of join nodes

\* Largest number of join nodes of a logical tree.
MaxJoins == 3

\* The condition lists of the join nodes of a tree.
WalkConds ==
    {<<>>,
     <<[left |-> LeftAlias(1), right |-> RightAlias(1),
        comparison |-> "COMPARE_EQUAL", null_values_are_equal |-> FALSE]>>,
     <<[left |-> LeftAlias(1), right |-> RightAlias(1),
        comparison |-> "COMPARE_LESSTHAN", null_values_are_equal |-> FALSE]>>}

Join(cs, l, r) == [kind |-> "JOIN", conditions |-> cs, children |-> <<l, r>>]

\* The logical trees of exactly k join nodes.
RECURSIVE Trees(_)
Trees(k) ==
    IF k = 0 THEN {Get}
    ELSE UNION {{Join(cs, l, r) : cs \in WalkConds, l \in Trees(i), r \in Trees(k - 1 - i)} :
                i \in 0..(k - 1)}

RECURSIVE Subtree(_, _)
Subtree(t, path) ==
    IF path = <<>> THEN t ELSE Subtree(t.children[Head(path)], Tail(path))

\* The tree with the conditions of the join node at path replaced.
RECURSIVE WithConditions(_, _, _)
WithConditions(t, path, cs) ==
    IF path = <<>> THEN [t EXCEPT !.conditions = cs]
    ELSE [t EXCEPT !.children[Head(path)] = WithConditions(@, Tail(path), cs)]

\* The table a leaf scans: "A" for a left child, "B" for a right child.
LeafTable(path) == IF path[Len(path)] = 1 THEN "A" ELSE "B"

TableCardinality(t) == IF t = "A" THEN 100 ELSE 0

\* EstimateCardinality of the logical node at path: the table's row count
\* for a leaf, the largest estimate of its children for a join.
RECURSIVE EstimateCardinality(_, _)
EstimateCardinality(t, path) ==
    IF t.kind = "GET" THEN TableCardinality(LeafTable(path))
    ELSE LET a == EstimateCardinality(t.children[1], Append(path, 1))
             b == EstimateCardinality(t.children[2], Append(path, 2))
         IN  IF a > b THEN a ELSE b

\* CreatePlan of a leaf: a bare table scan.
LowerGet(path) == ScanOf(path, LeafTable(path), FALSE, 0)

\* The LogicalComparisonJoin at a join node.
JoinOp(t) ==
    [join_type |-> "INNER", conditions |-> t.conditions,
     left_projection_map |-> <<0, 2>>, right_projection_map |-> <<1>>]

\* A call of CreatePlan(LogicalComparisonJoin &) on the node at path.
Frame(path) ==
    [node |-> path, pc |-> "estimate_left", lhs_cardinality |-> 0,
     rhs_cardinality |-> 0, left |-> NoPlan, right |-> NoPlan]

\* The statements in an order with the right child lowered first.
StepAfter_rightFirst(at) ==
    CASE at = "estimate_left" -> "estimate_right"
      [] at = "estimate_right" -> "lower_right"
      [] at = "lower_right" -> "lower_left"
      [] at = "lower_left" -> "classify"

\* The order of the statements of CreatePlan: the two estimates, the left
\* child, the right child, the classification.
StepAfter(at) ==
    CASE at = "estimate_left" -> "estimate_right"
      [] at = "estimate_right" -> "lower_left"
      [] at = "lower_left" -> "lower_right"
      [] at = "lower_right" -> "classify"

Top == stack[Len(stack)]
Caller == SubSeq(stack, 1, Len(stack) - 1)
SetTop(f) == [stack EXCEPT ![Len(stack)] = f]

InitWalk ==
    \E t \in UNION {Trees(k) : k \in 1..MaxJoins}, f \in BOOLEAN :
        /\ tree = t
        /\ tree0 = t
        /\ stack = <<Frame(<<>>)>>
        /\ result = NoPlan
        /\ log = << <<"lower", <<>> >> >>
        /\ force_index_join = f
        /\ ndebug = FALSE
        /\ storage = {}
        /\ indexes = Catalog
        /\ op = JoinOp(t) /\ op0 = op
        /\ left = NoPlan /\ right = NoPlan
        /\ lhs_cardinality = 0 /\ rhs_cardinality = 0
        /\ plan = NoPlan
        /\ pc = "walk"
        /\ entries = <<>> /\ infos = <<>> /\ removed = <<>> /\ dropped = {}

\* lhs_cardinality = op.children[0]->EstimateCardinality()
EstimateLeft ==
    /\ stack # <<>> /\ Top.pc = "estimate_left"
    /\ LET child == Append(Top.node, 1)
       IN  /\ stack' = SetTop([Top EXCEPT
                  !.lhs_cardinality = EstimateCardinality(Subtree(tree, child), child),
                  !.pc = StepAfter(Top.pc)])
           /\ log' = Append(log, <<"estimate", child>>)
    /\ UNCHANGED <<tree, tree0, result, joinVars, contextVars, entryVars>>

\* rhs_cardinality = op.children[1]->EstimateCardinality()
EstimateRight ==
    /\ stack # <<>> /\ Top.pc = "estimate_right"
    /\ LET child == Append(Top.node, 2)
       IN  /\ stack' = SetTop([Top EXCEPT
                  !.rhs_cardinality = EstimateCardinality(Subtree(tree, child), child),
                  !.pc = StepAfter(Top.pc)])
           /\ log' = Append(log, <<"estimate", child>>)
    /\ UNCHANGED <<tree, tree0, result, joinVars, contextVars, entryVars>>

\* auto left = CreatePlan(*op.children[0]): a leaf is lowered at once, a
\* join node by a nested call.
LowerLeft ==
    /\ stack # <<>> /\ Top.pc = "lower_left"
    /\ LET child == Append(Top.node, 1)
       IN  IF Subtree(tree, child).kind = "GET"
           THEN /\ stack' = SetTop([Top EXCEPT !.left = LowerGet(child),
                                               !.pc = StepAfter(Top.pc)])
                /\ log' = log \o << <<"lower", child>>, <<"lowered", child>> >>
           ELSE /\ stack' = Append(stack, Frame(child))
                /\ log' = Append(log, <<"lower", child>>)
    /\ UNCHANGED <<tree, tree0, result, joinVars, contextVars, entryVars>>

\* auto right = CreatePlan(*op.children[1])
LowerRight ==
    /\ stack # <<>> /\ Top.pc = "lower_right"
    /\ LET child == Append(Top.node, 2)
       IN  IF Subtree(tree, child).kind = "GET"
           THEN /\ stack' = SetTop([Top EXCEPT !.right = LowerGet(child),
                                               !.pc = StepAfter(Top.pc)])
                /\ log' = log \o << <<"lower", child>>, <<"lowered", child>> >>
           ELSE /\ stack' = Append(stack, Frame(child))
                /\ log' = Append(log, <<"lower", child>>)
    /\ UNCHANGED <<tree, tree0, result, joinVars, contextVars, entryVars>>

\* The caller's frame once the call it waits for has returned an operator.
Resume(f, returned) ==
    IF f.pc = "lower_left"
    THEN [f EXCEPT !.left = returned, !.pc = StepAfter(f.pc)]
    ELSE [f EXCEPT !.right = returned, !.pc = StepAfter(f.pc)]

\* The rest of CreatePlan: the operator is chosen, the node's conditions
\* are moved into it, and the call returns it to its caller.
Classify ==
    /\ stack # <<>> /\ Top.pc = "classify"
    /\ LET node == Subtree(tree, Top.node)
           chosen == Select(JoinOp(node), Top.left, Top.right, Top.lhs_cardinality,
                            Top.rhs_cardinality, force_index_join, storage, indexes)
       IN  /\ tree' = WithConditions(tree, Top.node, ConditionsAfter(JoinOp(node)))
           /\ log' = log \o << <<"classify", Top.node>>, <<"lowered", Top.node>> >>
           /\ IF Caller = <<>>
              THEN /\ stack' = <<>>
                   /\ result' = chosen
              ELSE /\ stack' = [Caller EXCEPT ![Len(Caller)] = Resume(@, chosen)]
                   /\ UNCHANGED result
    /\ UNCHANGED <<tree0, joinVars, contextVars, entryVars>>

NextWalk == EstimateLeft \/ EstimateRight \/ LowerLeft \/ LowerRight \/ Classify

SpecWalk == InitWalk /\ [][NextWalk]_vars

\* ------------------------------------------------------ duck_index_entry.cpp

\* Largest number of DuckIndexEntry objects ever constructed.
MaxEntries == 3

EntryIds == 1..MaxEntries
InfoIds == 1..MaxEntries

AllIndexNames == UNION {{Catalog[t][i].name : i \in 1..Len(Catalog[t])} : t \in Tables}

NoEntry == [state |-> "none", info |-> 0, name |-> "none", origin |-> 0]
NoInfo == [state |-> "none", table |-> NoTable, index_name |-> "none", use_count |-> 0]

\* The first entry and the first IndexDataTableInfo not constructed yet.
FreshEntry == CHOOSE e \in EntryIds :
                 entries[e].state = "none" /\ \A d \in 1..(e - 1) : entries[d].state # "none"
FreshInfo == CHOOSE i \in InfoIds :
                 infos[i].state = "none" /\ \A j \in 1..(i - 1) : infos[j].state # "none"

\* TableIndexList::RemoveIndex: the list without its first index of that
\* name.
RECURSIVE RemoveIndex(_, _)
RemoveIndex(ixs, name) ==
    IF ixs = <<>> THEN <<>>
    ELSE IF Head(ixs).name = name THEN Tail(ixs)
    ELSE <<Head(ixs)>> \o RemoveIndex(Tail(ixs), name)

InitEntry ==
    /\ entries = [e \in EntryIds |-> NoEntry]
    /\ infos = [i \in InfoIds |-> NoInfo]
    /\ removed = [n \in AllIndexNames |-> 0]
    /\ dropped = {}
    /\ indexes = Catalog
    /\ pc = "run"
    /\ force_index_join = FALSE /\ ndebug = FALSE /\ storage = {}
    /\ op = JoinOp(Join(<<>>, Get, Get)) /\ op0 = op
    /\ left = NoPlan /\ right = NoPlan
    /\ lhs_cardinality = 0 /\ rhs_cardinality = 0
    /\ plan = NoPlan
    /\ tree = Get /\ tree0 = Get /\ stack = <<>> /\ result = NoPlan /\ log = <<>>

\* DuckIndexEntry(catalog, schema, info, table): a new IndexDataTableInfo
\* of the table's DataTableInfo and the entry's name.  An index name is
\* given to one index of a table only.
CreateEntry ==
    /\ pc = "run"
    /\ \E e \in EntryIds : entries[e].state = "none"
    /\ \E t \in Tables :
          \E k \in 1..Len(Catalog[t]) :
             LET n == Catalog[t][k].name
             IN  /\ \A i \in InfoIds : ~(infos[i].table = t /\ infos[i].index_name = n)
                 /\ infos' = [infos EXCEPT ![FreshInfo] =
                        [state |-> "alive", table |-> t, index_name |-> n, use_count |-> 1]]
                 /\ entries' = [entries EXCEPT ![FreshEntry] =
                        [state |-> "alive", info |-> FreshInfo, name |-> n, origin |-> 0]]
    /\ UNCHANGED <<removed, dropped, joinVars, contextVars, walkVars>>

\* DuckIndexEntry(catalog, schema, info, info_p) on an IndexDataTableInfo
\* constructed with no DataTableInfo.
CreateDetached ==
    /\ pc = "run"
    /\ \E e \in EntryIds : entries[e].state = "none"
    /\ \E n \in {Catalog["A"][2].name} :
          /\ infos' = [infos EXCEPT ![FreshInfo] =
                 [state |-> "alive", table |-> NoTable, index_name |-> n, use_count |-> 1]]
          /\ entries' = [entries EXCEPT ![FreshEntry] =
                 [state |-> "alive", info |-> FreshInfo, name |-> n, origin |-> 0]]
    /\ UNCHANGED <<removed, dropped, joinVars, contextVars, walkVars>>

\* Copy handing the new entry an IndexDataTableInfo of its own.
CopiedInfo_fresh(source_info, fresh_info) == fresh_info

\* The IndexDataTableInfo Copy hands to the new entry: the shared_ptr of the
\* entry copied.
CopiedInfo(source_info, fresh_info) == source_info

\* DuckIndexEntry::Copy
Copy ==
    /\ pc = "run"
    /\ \E e \in EntryIds : entries[e].state = "none"
    /\ \E src \in EntryIds :
          /\ entries[src].state = "alive"
          /\ LET i == CopiedInfo(entries[src].info, FreshInfo)
             IN  /\ infos' = [infos EXCEPT ![i] =
                        IF @.state = "none"
                        THEN [infos[entries[src].info] EXCEPT !.use_count = 1]
                        ELSE [@ EXCEPT !.use_count = @ + 1]]
                 /\ entries' = [entries EXCEPT ![FreshEntry] =
                        [state |-> "alive", info |-> i, name |-> entries[src].name,
                         origin |-> src]]
    /\ UNCHANGED <<removed, dropped, joinVars, contextVars, walkVars>>

\* The destruction of an entry: its shared_ptr is released, and the last
\* release runs ~IndexDataTableInfo, which takes the index off the table's
\* list unless the info has no DataTableInfo.
Destroy ==
    /\ pc = "run"
    /\ \E e \in EntryIds :
          /\ entries[e].state = "alive"
          /\ entries' = [entries EXCEPT ![e].state = "destroyed"]
          /\ LET i == entries[e].info
                 info == infos[i]
             IN  IF info.use_count > 1
                 THEN /\ infos' = [infos EXCEPT ![i].use_count = @ - 1]
                      /\ UNCHANGED <<indexes, removed>>
                 ELSE /\ infos' = [infos EXCEPT ![i].use_count = 0, ![i].state = "destroyed"]
                      /\ IF info.table = NoTable
                         THEN UNCHANGED <<indexes, removed>>
                         ELSE /\ indexes' = [indexes EXCEPT ![info.table] =
                                     RemoveIndex(@, info.index_name)]
                              /\ removed' = [removed EXCEPT ![info.index_name] =
                                     @ + Len(indexes[info.table])
                                       - Len(RemoveIndex(indexes[info.table],
                                                         info.index_name))]
    /\ UNCHANGED <<dropped, joinVars, force_index_join, ndebug, storage, walkVars>>

\* DuckIndexEntry::CommitDrop on an entry whose info has a DataTableInfo:
\* TableIndexList::CommitDrop of the entry's name.
CommitDrop ==
    /\ pc = "run"
    /\ \E e \in EntryIds :
          /\ entries[e].state = "alive"
          /\ infos[entries[e].info].table # NoTable
          /\ dropped' = dropped \cup {entries[e].name}
    /\ UNCHANGED <<entries, infos, removed, joinVars, contextVars, walkVars>>

\* DuckIndexEntry::CommitDrop on an entry whose info has no DataTableInfo:
\* GetDataTableInfo dereferences a null pointer; the process is killed or
\* runs on with nothing changed.
CommitDropDetached ==
    /\ pc = "run"
    /\ \E e \in EntryIds :
          /\ entries[e].state = "alive"
          /\ infos[entries[e].info].table = NoTable
    /\ pc' \in {"run", "aborted"}
    /\ UNCHANGED <<op, op0, left, right, lhs_cardinality, rhs_cardinality, plan>>
    /\ UNCHANGED <<entryVars, contextVars, walkVars>>

NextEntry ==
    CreateEntry \/ CreateDetached \/ Copy \/ Destroy \/ CommitDrop \/ CommitDropDetached

SpecEntry == InitEntry /\ [][NextEntry]_vars

\* ------------------------------------------------ properties of the selector

Returned == pc = "done"

\* The side has an index on the operand, whatever else holds of it.
HasMatchingIndex(side, alias) ==
    /\ side.table # NoTable
    /\ \E i \in 1..Len(indexes[side.table]) : indexes[side.table][i].alias = alias

\* The side is a bare table scan without filters and without local storage.
CleanScan(side) ==
    /\ side.type = "TABLE_SCAN"
    /\ side.table # NoTable
    /\ side.table \notin storage
    /\ ~(side.has_table_filters /\ side.num_filters > 0)

IndexNames(t) == {indexes[t][i].name : i \in 1..Len(indexes[t])}

LeftFound == LeftIndex(op0, left, storage, indexes) # NoIndex
RightFound == RightIndex(op0, right, storage, indexes) # NoIndex

\* C1: a join with a null-equal equality condition is lowered to a hash
\* join, never to an index, merge or nested loop join.
C1_NullEqualIsHashJoin ==
    (Returned /\ \E i \in 1..Len(op0.conditions) :
                    /\ op0.conditions[i].null_values_are_equal
                    /\ op0.conditions[i].comparison = "COMPARE_EQUAL")
        => plan.type = "HASH_JOIN"

\* C2 as stated: a join with one condition of any non-equality comparator,
\* not-equal included, is lowered to a merge join.
C2_SingleNonEqualityIsMerge ==
    (Returned /\ Len(op0.conditions) = 1
              /\ op0.conditions[1].comparison # "COMPARE_EQUAL")
        => plan.type = "PIECEWISE_MERGE_JOIN"

\* C2 amended: a join with one condition is lowered, when an operator is
\* returned, to a merge join for <, <=, >, >= and to a nested loop join for
\* not-equal, for every join kind.
C2_SingleRangeIsMerge ==
    (Returned /\ Len(op0.conditions) = 1) =>
        /\ op0.conditions[1].comparison \in RangeComparisons
              => plan.type = "PIECEWISE_MERGE_JOIN"
        /\ op0.conditions[1].comparison = "COMPARE_NOTEQUAL"
              => plan.type = "NESTED_LOOP_JOIN"

C2_Witness ==
    /\ Returned /\ Len(op0.conditions) = 1 /\ op0.join_type = "LEFT"
    /\ op0.conditions[1].comparison = "COMPARE_GREATERTHANOREQUALTO"
    /\ plan.type = "PIECEWISE_MERGE_JOIN"

C4_IndexJoinOnlyOnCleanScan ==
    Returned =>
        /\ plan.type = "INDEX_JOIN" => CleanScan(plan.children[2])
        /\ ( /\ has_equality(op0.conditions)
             /\ HasMatchingIndex(left, op0.conditions[1].left) => ~CleanScan(left)
             /\ HasMatchingIndex(right, op0.conditions[1].right) => ~CleanScan(right) )
              => plan.type = "HASH_JOIN"

\* The left side has a matching index but local storage, force is set, and
\* the join falls back to a hash join.
C4_Witness ==
    /\ Returned /\ Len(op0.conditions) = 1 /\ op0.join_type = "INNER"
    /\ op0.conditions[1].comparison = "COMPARE_EQUAL"
    /\ left.type = "TABLE_SCAN" /\ HasMatchingIndex(left, op0.conditions[1].left)
    /\ left.table \in storage /\ ~HasMatchingIndex(right, op0.conditions[1].right)
    /\ force_index_join
    /\ plan.type = "HASH_JOIN"

\* The conditions of the operator with the exchange of a left-probing
\* index join undone.
Unswapped ==
    IF plan.type = "INDEX_JOIN" /\ plan.children[2] = left
    THEN SwapFirst(plan.conditions)
    ELSE plan.conditions

\* C5: the operator's conditions are the input conditions in number, order,
\* comparator and null flag; only a left-probing index join exchanges the
\* operands of its condition, and undoing that gives the input list.
C5_ConditionsPreserved ==
    Returned =>
        /\ Len(plan.conditions) = Len(op0.conditions)
        /\ \A i \in 1..Len(op0.conditions) :
              /\ plan.conditions[i].comparison = op0.conditions[i].comparison
              /\ plan.conditions[i].null_values_are_equal
                    = op0.conditions[i].null_values_are_equal
        /\ (plan.type = "INDEX_JOIN" /\ plan.children[2] = left)
              => /\ plan.conditions[1].left = op0.conditions[1].right
                 /\ plan.conditions[1].right = op0.conditions[1].left
        /\ ~(plan.type = "INDEX_JOIN" /\ plan.children[2] = left)
              => plan.conditions = op0.conditions
        /\ Unswapped = op0.conditions

C5_Witness ==
    /\ Returned /\ plan.type = "INDEX_JOIN" /\ plan.children[2] = left
    /\ plan.conditions # op0.conditions

\* C6: a join with a null-equal condition that is no equality returns no
\* operator.
C6_NullEqualNonEqualityAborts ==
    LoopAssertFails(op0.conditions) => ~Returned

\* C7 as stated: after lowering, the join node (kind, conditions,
\* projection maps) is as it was before.
C7_NodeUnchanged ==
    Returned => op = op0

\* C7 amended: lowering leaves the join kind, the projection maps, the
\* index lists, the local storage set and the estimates as they were; the
\* condition list is as it was only when empty (cross product), otherwise
\* it is moved into the operator and the node keeps an empty list.
C7_NodeKeptButConditionsMoved ==
    [][CreatePlan =>
        /\ op'.join_type = op.join_type
        /\ op'.left_projection_map = op.left_projection_map
        /\ op'.right_projection_map = op.right_projection_map
        /\ indexes' = indexes /\ storage' = storage
        /\ lhs_cardinality' = lhs_cardinality /\ rhs_cardinality' = rhs_cardinality
        /\ pc' = "done" => op'.conditions = <<>>
        /\ pc' = "aborted" => op' = op]_vars

C7_Witness ==
    /\ Returned /\ plan.type = "HASH_JOIN" /\ Len(op0.conditions) = 2
    /\ op.conditions = <<>> /\ op.join_type = op0.join_type

\* C8: an index join has the driving child first and the probed scan
\* second, the matched operand on the right of its condition, the driving
\* side's projection map first, the probed scan's column ids and an index
\* of the probed scan's table; probing the left exchanges children,
\* operands and maps together, probing the right exchanges none.
C8_IndexJoinNormalForm ==
    (Returned /\ plan.type = "INDEX_JOIN") =>
        LET probed == plan.children[2]
            driving == plan.children[1]
            leftProbed == probed = left
            c == op0.conditions[1]
        IN  /\ {probed, driving} = {left, right}
            /\ probed.type = "TABLE_SCAN"
            /\ plan.column_ids = probed.column_ids
            /\ plan.index \in IndexNames(probed.table)
            /\ \E i \in 1..Len(indexes[probed.table]) :
                  /\ indexes[probed.table][i].name = plan.index
                  /\ indexes[probed.table][i].alias = plan.conditions[1].right
            /\ IF leftProbed
               THEN /\ driving = right
                    /\ plan.conditions[1].right = c.left
                    /\ plan.conditions[1].left = c.right
                    /\ plan.left_projection_map = op0.right_projection_map
                    /\ plan.right_projection_map = op0.left_projection_map
               ELSE /\ driving = left
                    /\ plan.conditions[1].right = c.right
                    /\ plan.conditions[1].left = c.left
                    /\ plan.left_projection_map = op0.left_projection_map
                    /\ plan.right_projection_map = op0.right_projection_map

C8_Witness ==
    /\ Returned /\ plan.type = "INDEX_JOIN" /\ plan.children[2] = left
    /\ plan.children[1] = right /\ RightFound
    /\ plan.left_projection_map = op0.right_projection_map

\* ------------------------------------------------ properties of the walk

\* The paths of the join nodes of a tree rooted at path.
RECURSIVE JoinPaths(_, _)
JoinPaths(t, path) ==
    IF t.kind = "GET" THEN {}
    ELSE {path} \cup JoinPaths(t.children[1], Append(path, 1))
                \cup JoinPaths(t.children[2], Append(path, 2))

JoinOperatorTypes ==
    {"CROSS_PRODUCT", "HASH_JOIN", "INDEX_JOIN", "PIECEWISE_MERGE_JOIN", "NESTED_LOOP_JOIN"}

\* The operator is the lowering of the tree at path: a leaf's scan, or a
\* join operator whose two children are the lowerings of the node's two
\* children, in either order.
RECURSIVE Mirror(_, _, _)
Mirror(o, t, path) ==
    IF t.kind = "GET" THEN o = LowerGet(path)
    ELSE /\ o.type \in JoinOperatorTypes
         /\ Len(o.children) = 2
         /\ \/ /\ Mirror(o.children[1], t.children[1], Append(path, 1))
               /\ Mirror(o.children[2], t.children[2], Append(path, 2))
            \/ /\ Mirror(o.children[2], t.children[1], Append(path, 1))
               /\ Mirror(o.children[1], t.children[2], Append(path, 2))

Positions(e) == {i \in 1..Len(log) : log[i] = e}

\* C9: a join node is classified only after both estimates were taken and
\* both children were lowered, the left wholly before the right; no node is
\* lowered or classified twice, at the end each was classified once, and
\* every operator holds exactly the operators lowered from its own node's
\* two children.
C9_PostorderOnce ==
    /\ \A p \in JoinPaths(tree0, <<>>) :
          LET l == Append(p, 1)
              r == Append(p, 2)
          IN  /\ Cardinality(Positions(<<"lower", p>>)) <= 1
              /\ Cardinality(Positions(<<"classify", p>>)) <= 1
              /\ \A k \in Positions(<<"classify", p>>) :
                    /\ \E a \in Positions(<<"estimate", l>>) : a < k
                    /\ \E a \in Positions(<<"estimate", r>>) : a < k
                    /\ \E a \in Positions(<<"lower", l>>), b \in Positions(<<"lowered", l>>),
                          c \in Positions(<<"lower", r>>), d \in Positions(<<"lowered", r>>) :
                          a < b /\ b < c /\ c < d /\ d < k
              /\ stack = <<>> => Cardinality(Positions(<<"classify", p>>)) = 1
    /\ \A i \in 1..Len(stack) :
          LET f == stack[i]
          IN  /\ f.left # NoPlan
                    => Mirror(f.left, Subtree(tree0, Append(f.node, 1)), Append(f.node, 1))
              /\ f.right # NoPlan
                    => Mirror(f.right, Subtree(tree0, Append(f.node, 2)), Append(f.node, 2))
    /\ (pc = "walk" /\ stack = <<>>) => Mirror(result, tree0, <<>>)

\* A pass over a tree of three joins has ended; the root is an index join
\* driven by the index join lowered from its left child.
C9_Witness ==
    /\ pc = "walk" /\ stack = <<>>
    /\ Cardinality(JoinPaths(tree0, <<>>)) > 2
    /\ result.type = "INDEX_JOIN"
    /\ result.children[1].type = "INDEX_JOIN"
    /\ result.children[1].children[2] = LowerGet(<<1, 1>>)

\* --------------------------------------- properties of the index entries

AliveEntries(i) == {e \in DOMAIN entries : entries[e].state = "alive" /\ entries[e].info = i}

ListedNames(t) == {indexes[t][k].name : k \in 1..Len(indexes[t])}

\* C10: a copy holds the IndexDataTableInfo of the entry it was copied
\* from; an info lives exactly as long as an entry that holds it; while it
\* lives its index was never taken off the table's list and, CommitDrop not
\* called, is on it; once its last entry is destroyed the index was taken
\* off exactly once; an info without table info takes nothing off.
C10_IndexListedWhileShared ==
    /\ \A e \in DOMAIN entries :
          (entries[e].state # "none" /\ entries[e].origin # 0)
              => entries[e].info = entries[entries[e].origin].info
    /\ \A i \in DOMAIN infos :
          /\ infos[i].state = "alive" <=> AliveEntries(i) # {}
          /\ infos[i].use_count = Cardinality(AliveEntries(i))
          /\ (infos[i].state = "alive" /\ infos[i].table # NoTable)
                => /\ removed[infos[i].index_name] = 0
                   /\ infos[i].index_name \notin dropped
                         => infos[i].index_name \in ListedNames(infos[i].table)
          /\ (infos[i].state = "destroyed" /\ infos[i].table # NoTable)
                => /\ removed[infos[i].index_name] = 1
                   /\ infos[i].index_name \notin ListedNames(infos[i].table)
    /\ \A t \in DOMAIN indexes :
          Len(indexes[t]) = Len(Catalog[t])
                  - Cardinality({i \in DOMAIN infos :
                                   infos[i].state = "destroyed" /\ infos[i].table = t})

\* An entry and its copy were made on table A, the original was destroyed
\* and the copy still keeps the index on the list; an entry without table
\* info was destroyed.
C10_Witness ==
    /\ \E e \in DOMAIN entries :
          /\ entries[e].state = "alive" /\ entries[e].origin # 0
          /\ entries[entries[e].origin].state = "destroyed"
          /\ infos[entries[e].info].table = "A"
          /\ entries[e].name \in ListedNames("A")
    /\ \E i \in DOMAIN infos : infos[i].state = "destroyed" /\ infos[i].table = NoTable

====
